---- MODULE Spec2Model ----
(***************************************************************************)
(* ECG monitor: the playback engine (producer thread of                    *)
(* EcgMonitor::start_data_thread, consumer/UI thread of                    *)
(* EcgMonitor::update), the heart-rate estimator                           *)
(* (EcgDisplay::calculate_heart_rate), the annotation loader (QrsReader),  *)
(* the signal loader (EdfReader) and load_ecg_data.                        *)
(*                                                                         *)
(* A frame of edf_data is represented by its index i; its timestamp is     *)
(* i / SAMPLE_RATE seconds.  Times are counted in ticks of 1/SAMPLE_RATE   *)
(* second, so the timestamp of frame i is i ticks.                         *)
(***************************************************************************)
EXTENDS Integers, Sequences, FiniteSets, TLC

(***************************************************************************)
(* Bounds of the model.                                                    *)
(***************************************************************************)
\* capacity of the playback window used by the model (3600 in the source)
MaxWindow == 2
\* largest length of the frame sequence edf_data
MaxFrames == 3
\* the history counter of appends saturates here
MaxAppends == 7
\* longest window handed to the estimator under SpecHR
MaxHrWindow == 40
\* largest number of estimator queries under SpecHR
MaxQueries == 2
\* largest number of 4-byte records in an annotation file under SpecQrs
MaxRecords == 3
\* candidate count above which the heuristic scanner filters by interval
MaxCandidates == 2
\* largest number of channels of a signal file
MaxChannels == 2
\* largest data_records and samples-per-record value written in a signal file
MaxDeclared == 2
\* number of 16-bit samples written in the sample area of a signal file
MaxSamples == 6

(***************************************************************************)
(* Program constants.                                                      *)
(***************************************************************************)
SAMPLE_RATE == 360
\* MAX_SAMPLES = (SAMPLE_RATE * DISPLAY_SECONDS) as usize, scaled to MaxWindow
MAX_SAMPLES == MaxWindow
\* values of the speed slider (0.1 ..= 5.0), in tenths
SpeedSet == {1, 10, 50}
\* display_speed = Arc::new(Mutex::new(1.0)), in tenths
InitialSpeed == 10
\* no frame: value of a history variable before the first append
NoFrame == 0 - 1
\* let mut time_resolution = 1000.0
DEFAULT_RESOLUTION == 1000
\* if annotations.len() > 1000, scaled to MaxCandidates
CANDIDATE_LIMIT == MaxCandidates

VARIABLES
    \* state shared through Arc<Mutex<..>>
    samples,          \* VecDeque<EcgSample>: the playback window, front first
    samples_lock,     \* holder of the mutex of samples: "free", "producer", "ui"
    is_running,       \* the run-flag
    display_speed,    \* the speed multiplier, in tenths
    \* producer thread (start_data_thread)
    edf_len,          \* edf_data.len()
    current_index,
    p_pc,             \* position of the producer in its loop
    speed,            \* local speed of the current iteration, 0 outside it
    sleep_duration,   \* local sleep_duration in ms, 0 outside the iteration
    \* UI thread (update)
    ui_pc,
    ui_running,       \* local is_running of update
    ui_speed,         \* local speed of update, 0 outside its scope
    snap,             \* local samples of update: the snapshot handed to draw_ecg
    \* history variables (not program state)
    appended,         \* number of completed push_back calls, saturating at MaxAppends
    committed,        \* the window as the producer's last completed append left it
    stored_since_read,\* the UI stored a speed after the producer's last speed read
    paused_appends,   \* push_back calls since the run-flag was last cleared (saturates at 2)
    pause_mark,       \* last frame appended when the run-flag was last cleared
    resumed,          \* the run-flag was set again and no frame was appended since
    \* heart-rate estimator (EcgDisplay) and its inputs
    qrs,              \* indices of the frames of edf_data whose is_qrs is true
    last_qrs_times,   \* EcgDisplay.last_qrs_times, in ticks
    now,              \* wall-clock time of the last query, in ticks
    hr_samples,       \* the window handed to the last query
    heart_rate,       \* value returned by the last query
    hr_queries,       \* number of queries made
    prev_qrs_times,   \* history: last_qrs_times as the last query found it
    \* annotation loader (QrsReader::load_annotations)
    ann_file,         \* bytes of the annotation file
    ann_pc,           \* position in load_annotations, "idle" when it is not run
    time_resolution,  \* local time_resolution: [nan |-> is NaN, v |-> value]
    ann_pos,          \* byte offset of the reader
    annotations,      \* local annotations, each time as its tick value
    primary,          \* history: what the fixed-record scan accepted
    alt_called,       \* history: parse_alternative_format was called
    alt_candidates,   \* history: its candidates after dedup_by
    \* signal loader (EdfReader) and load_ecg_data
    edf_file,         \* the signal file: its fields, sample area and length
    edf_pc,           \* "idle", "new", "opened", "failed", "read", "panicked"
    header,           \* EdfReader.header once EdfReader::new returned Ok
    all_samples,      \* local all_samples of read_signals when it returned
    signal_data,      \* what read_signals returned: frames of calibrated values
    sample_rate,      \* what get_sample_rate returned, NoRate before it is called
    load_pc           \* load_ecg_data: "idle", "loading", "done", "synthetic"

pvars == <<edf_len, current_index, p_pc, speed, sleep_duration>>
uvars == <<ui_pc, ui_running, ui_speed, snap>>
shared == <<samples, samples_lock, is_running, display_speed>>
hist == <<appended, committed, stored_since_read, paused_appends, pause_mark, resumed>>
hrvars == <<qrs, last_qrs_times, now, hr_samples, heart_rate, hr_queries, prev_qrs_times>>
annvars == <<ann_file, ann_pc, time_resolution, ann_pos, annotations,
             primary, alt_called, alt_candidates>>
edfvars == <<edf_file, edf_pc, header, all_samples, signal_data, sample_rate, load_pc>>
ldvars == <<annvars, edfvars>>
vars == <<shared, pvars, uvars, hist, hrvars, ldvars>>

Min(a, b) == IF a < b THEN a ELSE b

Last(s) == s[Len(s)]

\* timestamp of frame i in ticks: i as f64 / SAMPLE_RATE seconds
Timestamp(i) == i

\* Duration::from_millis((1000.0 / (SAMPLE_RATE * speed)) as u64), speed in tenths
SleepDuration(s) == (1000 * 10) \div (SAMPLE_RATE * s)

\* mutant: the index wraps to 1 instead of 0
NextIndexSkip(i, n) == IF i + 1 >= n THEN Min(1, n - 1) ELSE i + 1

\* (current_index + 1) % edf_data.len()
NextIndex(i, n) == (i + 1) % n

(***************************************************************************)
(* Initial state: EcgMonitor::new, and the producer thread at the top of   *)
(* its loop after load_ecg_data returned a sequence of edf_len frames.     *)
(***************************************************************************)
PlaybackInit ==
    /\ samples = <<>>
    /\ samples_lock = "free"
    /\ is_running = TRUE
    /\ display_speed = InitialSpeed
    /\ current_index = 0
    /\ p_pc = "check_run"
    /\ speed = 0
    /\ sleep_duration = 0
    /\ ui_pc = "run_read"
    /\ ui_running = TRUE
    /\ ui_speed = 0
    /\ snap = <<>>
    /\ appended = 0
    /\ committed = <<>>
    /\ stored_since_read = FALSE
    /\ paused_appends = 0
    /\ pause_mark = NoFrame
    /\ resumed = FALSE

EstimatorInit ==
    /\ last_qrs_times = <<>>
    /\ prev_qrs_times = <<>>
    /\ now = 0
    /\ hr_samples = <<>>
    /\ heart_rate = 0
    /\ hr_queries = 0

\* load_annotations before its first statement, on no file
AnnStart ==
    /\ time_resolution = [nan |-> FALSE, v |-> DEFAULT_RESOLUTION]
    /\ ann_pos = 0
    /\ annotations = <<>>
    /\ primary = <<>>
    /\ alt_called = FALSE
    /\ alt_candidates = <<>>

\* get_sample_rate was not called
NoRate == <<>>

\* no signal file is being read
EdfIdle ==
    /\ edf_file = <<>>
    /\ edf_pc = "idle"
    /\ header = <<>>
    /\ all_samples = <<>>
    /\ signal_data = <<>>
    /\ sample_rate = NoRate
    /\ load_pc = "idle"

\* no annotation file is being read
AnnIdle ==
    /\ AnnStart
    /\ ann_file = <<>>
    /\ ann_pc = "idle"

\* the loaders are not run under the playback and estimator specifications
LoadersIdle == AnnIdle /\ EdfIdle

Init ==
    /\ PlaybackInit
    /\ EstimatorInit
    /\ LoadersIdle
    /\ edf_len \in 0..MaxFrames
    /\ qrs = {}

(***************************************************************************)
(* Producer thread: one action per statement of the loop body.             *)
(***************************************************************************)
\* mutant: the run-flag is not consulted
ProducerCheckRunIgnored ==
    /\ p_pc = "check_run"
    /\ p_pc' = "read_speed"
    /\ UNCHANGED <<edf_len, current_index, speed, sleep_duration>>
    /\ UNCHANGED <<shared, uvars, hist, hrvars, ldvars>>

\* if !*is_running.lock().unwrap() { thread::sleep(100 ms); continue; }
ProducerCheckRun ==
    /\ p_pc = "check_run"
    /\ p_pc' = IF is_running THEN "read_speed" ELSE "pause_sleep"
    /\ UNCHANGED <<edf_len, current_index, speed, sleep_duration>>
    /\ UNCHANGED <<shared, uvars, hist, hrvars, ldvars>>

\* end of the 100 ms pause poll: continue
ProducerPauseWake ==
    /\ p_pc = "pause_sleep"
    /\ p_pc' = "check_run"
    /\ UNCHANGED <<edf_len, current_index, speed, sleep_duration>>
    /\ UNCHANGED <<shared, uvars, hist, hrvars, ldvars>>

\* mutant: the speed is read once, before the loop
ProducerReadSpeedOnce ==
    /\ p_pc = "read_speed"
    /\ speed' = InitialSpeed
    /\ sleep_duration' = SleepDuration(InitialSpeed)
    /\ p_pc' = IF edf_len > 0 THEN "lock" ELSE "sleep"
    /\ stored_since_read' = FALSE
    /\ UNCHANGED <<edf_len, current_index>>
    /\ UNCHANGED <<shared, uvars, hrvars, ldvars>>
    /\ UNCHANGED <<appended, committed, paused_appends, pause_mark, resumed>>

\* let speed = *display_speed.lock().unwrap(); let sleep_duration = ...;
\* if !edf_data.is_empty() { let sample = edf_data[current_index].clone(); ...
ProducerReadSpeed ==
    /\ p_pc = "read_speed"
    /\ speed' = display_speed
    /\ sleep_duration' = SleepDuration(display_speed)
    /\ p_pc' = IF edf_len > 0 THEN "lock" ELSE "sleep"
    /\ stored_since_read' = FALSE
    /\ UNCHANGED <<edf_len, current_index>>
    /\ UNCHANGED <<shared, uvars, hrvars, ldvars>>
    /\ UNCHANGED <<appended, committed, paused_appends, pause_mark, resumed>>

\* let mut samples_lock = samples.lock().unwrap();
ProducerLock ==
    /\ p_pc = "lock"
    /\ samples_lock = "free"
    /\ samples_lock' = "producer"
    /\ p_pc' = "evict"
    /\ UNCHANGED <<samples, is_running, display_speed>>
    /\ UNCHANGED <<edf_len, current_index, speed, sleep_duration>>
    /\ UNCHANGED <<uvars, hist, hrvars, ldvars>>

\* mutant: the eviction test is off by one
EvictOffByOne(w) == IF Len(w) > MAX_SAMPLES THEN Tail(w) ELSE w

\* mutant: a full window is cleared instead of losing its oldest frame
EvictClear(w) == IF Len(w) >= MAX_SAMPLES THEN <<>> ELSE w

\* mutant: the newest frame is evicted instead of the oldest
EvictBack(w) == IF Len(w) >= MAX_SAMPLES THEN SubSeq(w, 1, Len(w) - 1) ELSE w

\* if samples_lock.len() >= MAX_SAMPLES { samples_lock.pop_front(); }
Evict(w) == IF Len(w) >= MAX_SAMPLES THEN Tail(w) ELSE w

ProducerEvict ==
    /\ p_pc = "evict"
    /\ samples' = Evict(samples)
    /\ p_pc' = "push"
    /\ UNCHANGED <<samples_lock, is_running, display_speed>>
    /\ UNCHANGED <<edf_len, current_index, speed, sleep_duration>>
    /\ UNCHANGED <<uvars, hist, hrvars, ldvars>>

\* samples_lock.push_back(sample);
ProducerPush ==
    /\ p_pc = "push"
    /\ samples' = Append(samples, current_index)
    /\ p_pc' = "unlock"
    /\ appended' = Min(appended + 1, MaxAppends)
    /\ paused_appends' = IF is_running THEN paused_appends ELSE Min(paused_appends + 1, 2)
    /\ resumed' = FALSE
    /\ UNCHANGED <<samples_lock, is_running, display_speed>>
    /\ UNCHANGED <<edf_len, current_index, speed, sleep_duration>>
    /\ UNCHANGED <<uvars, hrvars, ldvars, committed, stored_since_read, pause_mark>>

\* mutant: the guard is not dropped and lives across the sleep
ProducerUnlockKept ==
    /\ p_pc = "unlock"
    /\ p_pc' = "advance"
    /\ committed' = samples
    /\ UNCHANGED <<samples, samples_lock, is_running, display_speed>>
    /\ UNCHANGED <<edf_len, current_index, speed, sleep_duration>>
    /\ UNCHANGED <<uvars, hrvars, ldvars, appended, stored_since_read, paused_appends, pause_mark, resumed>>

\* drop(samples_lock);
ProducerUnlock ==
    /\ p_pc = "unlock"
    /\ samples_lock' = "free"
    /\ p_pc' = "advance"
    /\ committed' = samples
    /\ UNCHANGED <<samples, is_running, display_speed>>
    /\ UNCHANGED <<edf_len, current_index, speed, sleep_duration>>
    /\ UNCHANGED <<uvars, hrvars, ldvars, appended, stored_since_read, paused_appends, pause_mark, resumed>>

\* current_index = (current_index + 1) % edf_data.len(); then thread::sleep begins
ProducerAdvance ==
    /\ p_pc = "advance"
    /\ current_index' = NextIndex(current_index, edf_len)
    /\ p_pc' = "sleep"
    /\ UNCHANGED <<edf_len, speed, sleep_duration>>
    /\ UNCHANGED <<shared, uvars, hist, hrvars, ldvars>>

\* thread::sleep(sleep_duration) returns; the locals of the iteration go out of scope
ProducerSleepWake ==
    /\ p_pc = "sleep"
    /\ p_pc' = "check_run"
    /\ speed' = 0
    /\ sleep_duration' = 0
    /\ UNCHANGED <<edf_len, current_index>>
    /\ UNCHANGED <<shared, uvars, hist, hrvars, ldvars>>

Producer ==
    \/ ProducerCheckRun
    \/ ProducerPauseWake
    \/ ProducerReadSpeed
    \/ ProducerLock
    \/ ProducerEvict
    \/ ProducerPush
    \/ ProducerUnlock
    \/ ProducerAdvance
    \/ ProducerSleepWake

(***************************************************************************)
(* UI thread: EcgMonitor::update, one action per statement that touches    *)
(* the shared state.                                                       *)
(***************************************************************************)
\* let mut is_running = self.is_running.lock().unwrap().clone();
UIReadRun ==
    /\ ui_pc = "run_read"
    /\ ui_running' = is_running
    /\ ui_pc' = "run_click"
    /\ UNCHANGED <<ui_speed, snap>>
    /\ UNCHANGED <<shared, pvars, hist, hrvars, ldvars>>

\* mutant: a click also restarts the replay from frame 0 with an empty window
UIClickRestart ==
    /\ ui_pc = "run_click"
    /\ ui_pc' = "speed_read"
    /\ \E clicked \in BOOLEAN :
         IF clicked
         THEN /\ ui_running' = ~ui_running
              /\ is_running' = ~ui_running
              /\ samples' = <<>>
              /\ current_index' = 0
              /\ paused_appends' = IF ui_running THEN 0 ELSE paused_appends
              /\ pause_mark' = IF ui_running
                                THEN (IF committed = <<>> THEN NoFrame ELSE Last(committed))
                                ELSE pause_mark
              /\ resumed' = ~ui_running
         ELSE UNCHANGED <<ui_running, is_running, samples, current_index,
                          paused_appends, pause_mark, resumed>>
    /\ UNCHANGED <<ui_speed, snap>>
    /\ UNCHANGED <<samples_lock, display_speed>>
    /\ UNCHANGED <<edf_len, p_pc, speed, sleep_duration>>
    /\ UNCHANGED <<appended, committed, stored_since_read, hrvars, ldvars>>

\* if play_button.clicked() { is_running = !is_running;
\*                            *self.is_running.lock().unwrap() = is_running; }
UIClick ==
    /\ ui_pc = "run_click"
    /\ ui_pc' = "speed_read"
    /\ \E clicked \in BOOLEAN :
         IF clicked
         THEN /\ ui_running' = ~ui_running
              /\ is_running' = ~ui_running
              /\ paused_appends' = IF ui_running THEN 0 ELSE paused_appends
              /\ pause_mark' = IF ui_running
                                THEN (IF committed = <<>> THEN NoFrame ELSE Last(committed))
                                ELSE pause_mark
              /\ resumed' = ~ui_running
         ELSE UNCHANGED <<ui_running, is_running, paused_appends, pause_mark, resumed>>
    /\ UNCHANGED <<ui_speed, snap>>
    /\ UNCHANGED <<samples, samples_lock, display_speed>>
    /\ UNCHANGED <<pvars, appended, committed, stored_since_read, hrvars, ldvars>>

\* let mut speed = self.display_speed.lock().unwrap().clone();
UIReadSpeed ==
    /\ ui_pc = "speed_read"
    /\ ui_speed' = display_speed
    /\ ui_pc' = "speed_slider"
    /\ UNCHANGED <<ui_running, snap>>
    /\ UNCHANGED <<shared, pvars, hist, hrvars, ldvars>>

\* if ui.add(egui::Slider::new(&mut speed, 0.1..=5.0)).changed()
\*     { *self.display_speed.lock().unwrap() = speed; }
\* the locals is_running and speed are not written after this statement
UISlider ==
    /\ ui_pc = "speed_slider"
    /\ ui_pc' = "lock"
    /\ \E v \in SpeedSet :
         IF v # ui_speed
         THEN /\ display_speed' = v
              /\ stored_since_read' = TRUE
         ELSE UNCHANGED <<display_speed, stored_since_read>>
    /\ ui_speed' = 0
    /\ UNCHANGED <<ui_running, snap>>
    /\ UNCHANGED <<samples, samples_lock, is_running>>
    /\ UNCHANGED <<pvars, hrvars, ldvars>>
    /\ UNCHANGED <<appended, committed, paused_appends, pause_mark, resumed>>

\* mutant: the window is read without taking its lock
UILockNone ==
    /\ ui_pc = "lock"
    /\ samples_lock' = samples_lock
    /\ ui_pc' = "copy"
    /\ UNCHANGED <<ui_running, ui_speed, snap>>
    /\ UNCHANGED <<samples, is_running, display_speed>>
    /\ UNCHANGED <<pvars, hist, hrvars, ldvars>>

\* self.samples.lock().unwrap()
UILock ==
    /\ ui_pc = "lock"
    /\ samples_lock = "free"
    /\ samples_lock' = "ui"
    /\ ui_pc' = "copy"
    /\ UNCHANGED <<ui_running, ui_speed, snap>>
    /\ UNCHANGED <<samples, is_running, display_speed>>
    /\ UNCHANGED <<pvars, hist, hrvars, ldvars>>

\* mutant: the guard is bound to a name and lives until the end of the closure
UICopyHeld ==
    /\ ui_pc = "copy"
    /\ snap' = samples
    /\ ui_pc' = "draw"
    /\ UNCHANGED <<ui_running, ui_speed>>
    /\ UNCHANGED <<shared, pvars, hist, hrvars, ldvars>>

\* let samples = <guard>.clone();  the temporary guard is dropped at the end
\* of the let statement
UICopy ==
    /\ ui_pc = "copy"
    /\ snap' = samples
    /\ samples_lock' = "free"
    /\ ui_pc' = "draw"
    /\ UNCHANGED <<ui_running, ui_speed>>
    /\ UNCHANGED <<samples, is_running, display_speed>>
    /\ UNCHANGED <<pvars, hist, hrvars, ldvars>>

\* self.display.draw_ecg(ui, &samples); the closure ends and samples is dropped.
\* The estimator state that draw_ecg updates is private to EcgDisplay and is
\* not read by the playback; it is modelled by HRQuery under SpecHR.
UIDraw ==
    /\ ui_pc = "draw"
    /\ snap' = <<>>
    /\ ui_pc' = "run_read"
    /\ UNCHANGED <<ui_running, ui_speed>>
    /\ UNCHANGED <<shared, pvars, hist, hrvars, ldvars>>

UI ==
    \/ UIReadRun
    \/ UIClick
    \/ UIReadSpeed
    \/ UISlider
    \/ UILock
    \/ UICopy
    \/ UIDraw

Next == Producer \/ UI

Spec == Init /\ [][Next]_vars

\* Spec under fair scheduling: a thread that can take a step takes one; the
\* producer blocked in samples.lock() gets the mutex when it is released
\* again and again (the UI takes it once per repaint, for one clone)
SpecLive == Spec /\ SF_vars(Producer) /\ WF_vars(UI)

(***************************************************************************)
(* Heart-rate estimator: EcgDisplay::calculate_heart_rate.  Times are in   *)
(* ticks of 1/SAMPLE_RATE second: 0.1 s is DedupTicks, 10 s is KeepTicks.  *)
(***************************************************************************)
\* samples.iter().rev().take(100)
RECENT_FRAMES == 100
\* (t - qrs_time).abs() < 0.1
DedupTicks == SAMPLE_RATE \div 10
\* current_time - t < 10.0
KeepTicks == 10 * SAMPLE_RATE
\* i32::MAX, the value of (f64::INFINITY as i32)
I32_MAX == 2147483647

Abs(x) == IF x < 0 THEN -x ELSE x

\* samples.iter().position(|s| s.timestamp == sample.timestamp).unwrap_or(0)
Position(w, ts) ==
    LET hits == {p \in 1..Len(w) : Timestamp(w[p]) = ts}
    IN  IF hits = {} THEN 0 ELSE (CHOOSE p \in hits : \A q \in hits : p <= q) - 1

\* current_time - (samples.len() - position) / 360.0
QrsTime(w, k, t) == t - (Len(w) - Position(w, Timestamp(w[k])))

\* the body of the loop for the frame at place k (1-based) of the window:
\* if sample.is_qrs { let qrs_time = ...; if !any(|t - qrs_time| < 0.1) { push } }
RecordBeat(w, k, times, t) ==
    IF w[k] \notin qrs
    THEN times
    ELSE LET q == QrsTime(w, k, t)
         IN  IF \E i \in 1..Len(times) : Abs(times[i] - q) < DedupTicks
             THEN times
             ELSE Append(times, q)

\* for sample in samples.iter().rev().take(100): the cursor k goes from the
\* newest frame down, left is the number of frames still to take
RECURSIVE ScanQrs(_, _, _, _, _)
ScanQrs(w, k, left, times, t) ==
    IF k < 1 \/ left = 0
    THEN times
    ELSE LET next == RecordBeat(w, k, times, t)
         IN  IF Len(next) >= 0 THEN ScanQrs(w, k - 1, left - 1, next, t) ELSE next

\* mutant: nothing is pruned
RetainAll(times, t) == times

\* self.last_qrs_times.retain(|&t| current_time - t < 10.0)
Retain(times, t) == SelectSeq(times, LAMBDA x : t - x < KeepTicks)

\* self.last_qrs_times.sort_by(|a, b| a.partial_cmp(b).unwrap())
SortTimes(times) == SortSeq(times, LAMBDA a, b : a < b)

\* windows(2).map(|w| w[1] - w[0]).collect()
Intervals(times) == [i \in 1..(Len(times) - 1) |-> times[i + 1] - times[i]]

RECURSIVE SumSeq(_)
SumSeq(q) == IF q = <<>> THEN 0 ELSE Head(q) + SumSeq(Tail(q))

\* f64::round of a / b for a >= 0, b > 0: half away from zero
RoundDiv(a, b) == (2 * a + b) \div (2 * b)

\* mutant: the sum of the intervals is divided by the number of beat times
BpmPerBeat(times) ==
    LET iv == Intervals(times)
        sum == SumSeq(iv)
    IN  IF sum = 0 THEN I32_MAX ELSE RoundDiv(60 * SAMPLE_RATE * Len(times), sum)

\* avg_interval = sum / len; bpm = 60.0 / avg_interval; bpm.round() as i32
\* with the intervals in ticks: 60 / ((sum / SAMPLE_RATE) / len)
Bpm(times) ==
    LET iv == Intervals(times)
        sum == SumSeq(iv)
    IN  IF sum = 0 THEN I32_MAX ELSE RoundDiv(60 * SAMPLE_RATE * Len(iv), sum)

\* mutant: no fallback, 0 is returned when fewer than two beat times remain
FallbackNone == {0}

\* (76.0 + breathing_effect + random_variation).max(65.0).min(90.0) as i32:
\* breathing_effect is within [-2, 2] and random_variation within [-1.5, 1.5];
\* the sum lies in [72.5, 79.5], whose truncations are 72..79, each taken as possible
FallbackRates == {Min(IF v < 65 THEN 65 ELSE v, 90) : v \in 72..79}

\* calculate_heart_rate(samples) at wall-clock time t with self.last_qrs_times
\* = times: the list it leaves and the values it may return
Estimate(w, times, t) ==
    LET kept == Retain(ScanQrs(w, Len(w), RECENT_FRAMES, times, t), t)
    IN  IF Len(kept) >= 2
        THEN [times |-> SortTimes(kept), rates |-> {Bpm(SortTimes(kept))}]
        ELSE [times |-> kept, rates |-> FallbackRates]

\* one call of calculate_heart_rate(samples) at wall-clock time now + dt
HRQuery(w, dt) ==
    /\ hr_queries < MaxQueries
    /\ hr_queries' = hr_queries + 1
    /\ now' = now + dt
    /\ hr_samples' = w
    /\ prev_qrs_times' = last_qrs_times
    /\ \E e \in {Estimate(w, last_qrs_times, now + dt)} :
          /\ last_qrs_times' = e.times
          /\ heart_rate' \in e.rates
    /\ UNCHANGED <<qrs, shared, pvars, uvars, hist, ldvars>>

(***************************************************************************)
(* SpecHR: the estimator queried with windows the engine can produce       *)
(* (contiguous cyclic runs of edf_data) at non-decreasing wall-clock       *)
(* times.                                                                  *)
(***************************************************************************)
\* the run of len frames of an n-frame sequence that starts at frame first
Run(n, first, len) == [k \in 1..len |-> (first + k - 1) % n]

\* lengths of edf_data tried
HrFrameCounts == {1, MaxHrWindow}

\* frames that may carry the is_qrs flag
QrsCandidates(n) == {0, n \div 2, n - 1} \cap (0..(n - 1))

\* windows tried for an n-frame sequence
HrWindows(n) ==
    {Run(n, first, len) : first \in {0, n - 1}, len \in {0, 2, MaxHrWindow}}

\* steps of the wall clock between two queries, in ticks
DtSet == {20, (4 * SAMPLE_RATE) \div 5, SAMPLE_RATE, KeepTicks}

InitHR ==
    /\ PlaybackInit
    /\ EstimatorInit
    /\ LoadersIdle
    /\ edf_len \in HrFrameCounts
    /\ qrs \in SUBSET QrsCandidates(edf_len)

NextHR == \E w \in HrWindows(edf_len), dt \in DtSet : HRQuery(w, dt)

SpecHR == InitHR /\ [][NextHR]_vars

(***************************************************************************)
(* QrsReader (qrs_parser.rs).  A file is a sequence of bytes 0..255.  A    *)
(* timestamp is time_raw as f64 / time_resolution; all timestamps of one   *)
(* load share the divisor, so a list of timestamps is kept as the list of  *)
(* its tick values and the f64 comparisons are made on raw and divisor:    *)
(* x / NaN and 0 / 0 are NaN, x / 0 is +inf for x > 0, and a negative      *)
(* divisor reverses the order.                                             *)
(***************************************************************************)
\* b"## "
MARKER == <<35, 35, 32>>

\* "time resolution:"
RES_PATTERN == <<116, 105, 109, 101, 32, 114, 101, 115, 111, 108, 117, 116, 105, 111, 110, 58>>

\* b'\n'
NEWLINE == 10

\* char::is_whitespace for a byte read as a char
IsWhitespace(b) == b \in {9, 10, 11, 12, 13, 32, 133, 160}

IsDigit(b) == b \in 48..57

\* smallest 1-based index at or after k where pattern p occurs in s, 0 if none
FindFrom(s, p, k) ==
    LET hits == {i \in k..(Len(s) - Len(p) + 1) : SubSeq(s, i, i + Len(p) - 1) = p}
    IN  IF hits = {} THEN 0 ELSE CHOOSE i \in hits : \A j \in hits : i <= j

\* smallest 1-based index at or after k of a byte of s satisfying newline, 0 if none
NewlineFrom(s, k) ==
    LET hits == {i \in k..Len(s) : s[i] = NEWLINE}
    IN  IF hits = {} THEN 0 ELSE CHOOSE i \in hits : \A j \in hits : i <= j

\* the first line: the bytes before the first b'\n', or all of them
FirstLine(s) ==
    LET n == NewlineFrom(s, 1)
    IN  IF n = 0 THEN s ELSE SubSeq(s, 1, n - 1)

\* resolution_part.split_whitespace() first item: <<>> if there is none
FirstToken(s) ==
    LET starts == {i \in 1..Len(s) : ~IsWhitespace(s[i])}
    IN  IF starts = {} THEN <<>>
        ELSE LET a == CHOOSE i \in starts : \A j \in starts : i <= j
                 ends == {i \in a..Len(s) : IsWhitespace(s[i])}
                 b == IF ends = {} THEN Len(s) + 1
                      ELSE CHOOSE i \in ends : \A j \in ends : i <= j
             IN  SubSeq(s, a, b - 1)

RECURSIVE DecimalValue(_)
DecimalValue(d) ==
    IF d = <<>> THEN 0 ELSE 10 * DecimalValue(SubSeq(d, 1, Len(d) - 1)) + (d[Len(d)] - 48)

\* str::parse::<f64> on a token: an optionally signed run of digits is its
\* value, "nan" in any case is NaN, and any other token without a decimal
\* point, an exponent or "inf" is an error (tokens with those are not drawn)
ParseF64(tok) ==
    LET signed == tok # <<>> /\ tok[1] \in {43, 45}
        body == IF signed THEN Tail(tok) ELSE tok
    IN  IF body # <<>> /\ \A i \in 1..Len(body) : IsDigit(body[i])
        THEN [ok |-> TRUE, nan |-> FALSE,
              v |-> IF signed /\ tok[1] = 45 THEN 0 - DecimalValue(body) ELSE DecimalValue(body)]
        ELSE IF Len(body) = 3 /\ body[1] \in {78, 110} /\ body[2] \in {65, 97} /\ body[3] \in {78, 110}
        THEN [ok |-> TRUE, nan |-> TRUE, v |-> 0]
        ELSE [ok |-> FALSE, nan |-> FALSE, v |-> 0]

\* read_header: the divisor named on the first line, else the default
ReadHeader(s) ==
    LET line == FirstLine(s)
        at == FindFrom(line, RES_PATTERN, 1)
        after == SubSeq(line, at + Len(RES_PATTERN), Len(line))
        again == FindFrom(after, RES_PATTERN, 1)
        part == IF again = 0 THEN after ELSE SubSeq(after, 1, again - 1)
        num == ParseF64(FirstToken(part))
    IN  IF at # 0 /\ num.ok
        THEN [nan |-> num.nan, v |-> num.v]
        ELSE [nan |-> FALSE, v |-> DEFAULT_RESOLUTION]

\* offset of the reader after the header skip of load_annotations: after the
\* newline that ends a line beginning with the marker (searched from the
\* fifth byte), 0 if the file does not begin with the marker, end of file
\* if fewer than 4 bytes could be read
SkipHeader(s) ==
    IF Len(s) < 4 THEN Len(s)
    ELSE IF SubSeq(s, 1, 3) = MARKER
    THEN LET n == NewlineFrom(s, 5) IN IF n = 0 THEN Len(s) ELSE n
    ELSE 0

\* mutant: only the letter codes are beats
IsQrsLetter(ann_type) == ann_type \in {78, 76, 82, 65, 97, 74, 83, 86, 69, 106, 47, 102, 81}

\* is_qrs_annotation
IsQrsAnnotation(ann_type) ==
    \/ ann_type \in 1..12
    \/ ann_type \in {78, 76, 82, 65, 97, 74, 83, 86, 69, 106, 47, 102, 81}

\* the f64 time_raw / time_resolution is NaN
TimeIsNaN(raw, res) == res.nan \/ (res.v = 0 /\ raw = 0)

\* a < b on the f64 timestamps of tick values a and b
TimeLess(a, b, res) ==
    /\ ~TimeIsNaN(a, res)
    /\ ~TimeIsNaN(b, res)
    /\ IF res.v > 0 THEN a < b ELSE IF res.v < 0 THEN b < a ELSE FALSE

\* annotations.sort_by(|a, b| a.partial_cmp(b).unwrap()) panics: the
\* comparator is called once the list has two entries, and partial_cmp is
\* None when either side is NaN
SortPanics(times, res) ==
    /\ Len(times) >= 2
    /\ \E i \in 1..Len(times) : TimeIsNaN(times[i], res)

\* insert x into the sorted list q after every entry that is not greater
RECURSIVE InsertTime(_, _, _)
InsertTime(q, x, res) ==
    IF q = <<>> THEN <<x>>
    ELSE IF TimeLess(x, Head(q), res) THEN <<x>> \o q
    ELSE <<Head(q)>> \o InsertTime(Tail(q), x, res)

\* the stable sort of sort_by on a list without NaN
RECURSIVE SortByTime(_, _)
SortByTime(times, res) ==
    IF times = <<>> THEN <<>>
    ELSE InsertTime(SortByTime(SubSeq(times, 1, Len(times) - 1), res), times[Len(times)], res)

\* u32::from_le_bytes of the 4 bytes at offset i (0-based)
U32At(s, i) == s[i + 1] + 256 * s[i + 2] + 65536 * s[i + 3] + 16777216 * s[i + 4]

\* time_seconds > 0.0 && time_seconds < 3600.0
Reasonable(raw, res) == ~res.nan /\ res.v > 0 /\ raw > 0 /\ raw < 3600 * res.v

\* the candidates of the scan in steps of 4 bytes, in file order
Candidates(s, res) ==
    LET all == [k \in 1..(Len(s) \div 4) |-> U32At(s, 4 * (k - 1))]
    IN  SelectSeq(all, LAMBDA raw : Reasonable(raw, res))

\* (*a - *b).abs() < 0.001 on timestamps d ticks apart
WithinMs(d, res) == d <= (res.v - 1) \div 1000

\* dedup_by: an entry within 1 ms of the last entry kept is removed
RECURSIVE DedupBy(_, _, _)
DedupBy(kept, rest, res) ==
    IF rest = <<>> THEN kept
    ELSE IF kept # <<>> /\ WithinMs(Abs(Head(rest) - Last(kept)), res)
    THEN DedupBy(kept, Tail(rest), res)
    ELSE DedupBy(Append(kept, Head(rest)), Tail(rest), res)

\* mutant: only the lower limit is tested
QrsIntervalLower(d, res) == 10 * d >= 3 * res.v

\* interval >= 0.3 && interval <= 2.0 on timestamps d ticks apart
QrsInterval(d, res) == 10 * d >= 3 * res.v /\ d <= 2 * res.v

\* the interval filter: an entry is kept if its interval from the last
\* entry kept is in [0.3, 2.0]
RECURSIVE FilterIntervals(_, _, _)
FilterIntervals(kept, rest, res) ==
    IF rest = <<>> THEN kept
    ELSE IF QrsInterval(Head(rest) - Last(kept), res)
    THEN FilterIntervals(Append(kept, Head(rest)), Tail(rest), res)
    ELSE FilterIntervals(kept, Tail(rest), res)

\* parse_alternative_format: the deduplicated candidates and what is returned
ParseAlternativeFormat(s, res) ==
    LET cands == DedupBy(<<>>, SortByTime(Candidates(s, res), res), res)
    IN  [candidates |-> cands,
         out |-> IF Len(cands) > CANDIDATE_LIMIT
                 THEN FilterIntervals(<<cands[1]>>, Tail(cands), res)
                 ELSE cands]

(***************************************************************************)
(* load_annotations, one action per stage.                                 *)
(***************************************************************************)
\* read_header, seek to 0 and the header skip
AnnReadHeader ==
    /\ ann_pc = "header"
    /\ time_resolution' = ReadHeader(ann_file)
    /\ ann_pos' = SkipHeader(ann_file)
    /\ ann_pc' = "scan"
    /\ UNCHANGED <<ann_file, annotations, primary, alt_called, alt_candidates>>
    /\ UNCHANGED <<shared, pvars, uvars, hist, hrvars, edfvars>>

\* mutant: a skipped record ends the scan
AnnReadAnnotationStop ==
    /\ ann_pc = "scan"
    /\ ann_pos + 4 <= Len(ann_file)
    /\ LET time_raw == ann_file[ann_pos + 1] + 256 * ann_file[ann_pos + 2]
           ann_type == ann_file[ann_pos + 3]
       IN  /\ annotations' = IF IsQrsAnnotation(ann_type)
                             THEN Append(annotations, time_raw) ELSE annotations
           /\ ann_pos' = IF IsQrsAnnotation(ann_type) THEN ann_pos + 4 ELSE Len(ann_file)
    /\ UNCHANGED <<ann_file, ann_pc, time_resolution, primary, alt_called, alt_candidates>>
    /\ UNCHANGED <<shared, pvars, uvars, hist, hrvars, edfvars>>

\* one iteration of the scan loop on a complete 4-byte record:
\* Ok(Some(time)) => annotations.push(time), Ok(None) => continue
AnnReadAnnotation ==
    /\ ann_pc = "scan"
    /\ ann_pos + 4 <= Len(ann_file)
    /\ LET time_raw == ann_file[ann_pos + 1] + 256 * ann_file[ann_pos + 2]
           ann_type == ann_file[ann_pos + 3]
       IN  annotations' = IF IsQrsAnnotation(ann_type)
                          THEN Append(annotations, time_raw) ELSE annotations
    /\ ann_pos' = ann_pos + 4
    /\ UNCHANGED <<ann_file, ann_pc, time_resolution, primary, alt_called, alt_candidates>>
    /\ UNCHANGED <<shared, pvars, uvars, hist, hrvars, edfvars>>

\* mutant: the heuristic scanner also replaces a single recovered event
AnnScanEndFew ==
    /\ ann_pc = "scan"
    /\ ann_pos + 4 > Len(ann_file)
    /\ primary' = annotations
    /\ alt_called' = (Len(annotations) < 2)
    /\ \E alt \in {ParseAlternativeFormat(ann_file, time_resolution)} :
          /\ alt_candidates' = IF Len(annotations) < 2 THEN alt.candidates ELSE <<>>
          /\ annotations' = IF Len(annotations) < 2 THEN alt.out ELSE annotations
    /\ ann_pos' = Len(ann_file)
    /\ ann_pc' = "sort"
    /\ UNCHANGED <<ann_file, time_resolution>>
    /\ UNCHANGED <<shared, pvars, uvars, hist, hrvars, edfvars>>

\* Err(_) => break on a missing or incomplete record, then
\* if annotations.is_empty() { annotations = parse_alternative_format(..)? }
AnnScanEnd ==
    /\ ann_pc = "scan"
    /\ ann_pos + 4 > Len(ann_file)
    /\ primary' = annotations
    /\ alt_called' = (annotations = <<>>)
    /\ \E alt \in {ParseAlternativeFormat(ann_file, time_resolution)} :
          /\ alt_candidates' = IF annotations = <<>> THEN alt.candidates ELSE <<>>
          /\ annotations' = IF annotations = <<>> THEN alt.out ELSE annotations
    /\ ann_pos' = Len(ann_file)
    /\ ann_pc' = "sort"
    /\ UNCHANGED <<ann_file, time_resolution>>
    /\ UNCHANGED <<shared, pvars, uvars, hist, hrvars, edfvars>>

\* mutant: the list is returned as the scan left it
AnnSortNone ==
    /\ ann_pc = "sort"
    /\ ann_pc' = IF SortPanics(annotations, time_resolution) THEN "panicked" ELSE "returned"
    /\ UNCHANGED <<ann_file, time_resolution, ann_pos, annotations, primary,
                   alt_called, alt_candidates>>
    /\ UNCHANGED <<shared, pvars, uvars, hist, hrvars, edfvars>>

\* annotations.sort_by(|a, b| a.partial_cmp(b).unwrap()); Ok(annotations)
AnnSort ==
    /\ ann_pc = "sort"
    /\ IF SortPanics(annotations, time_resolution)
       THEN ann_pc' = "panicked" /\ UNCHANGED annotations
       ELSE /\ ann_pc' = "returned"
            /\ annotations' = SortByTime(annotations, time_resolution)
    /\ UNCHANGED <<ann_file, time_resolution, ann_pos, primary, alt_called, alt_candidates>>
    /\ UNCHANGED <<shared, pvars, uvars, hist, hrvars, edfvars>>

(***************************************************************************)
(* SpecQrs: load_annotations on annotation files made of an optional       *)
(* header line, up to MaxRecords 4-byte records and an optional incomplete *)
(* record.                                                                 *)
(***************************************************************************)
\* the 4 bytes of a record: time_raw little-endian, type, subtype 0
Record(raw, ann_type) == <<raw % 256, raw \div 256, ann_type, 0>>

\* tick values written in records
RawSet == {0, 100, 400, 2400, 3000}

\* type codes written in records of the files with several records: 'N' and 0
RecordSet == {Record(raw, t) : raw \in RawSet, t \in {78, 0}}

RECURSIVE Flatten(_)
Flatten(q) == IF q = <<>> THEN <<>> ELSE Head(q) \o Flatten(Tail(q))

\* "## time resolution: <tok><pad>\n"
HeaderLine(tok, pad) == MARKER \o RES_PATTERN \o <<32>> \o tok \o pad \o <<NEWLINE>>

\* no header; headers naming 2000 (padded to 28 bytes), 0, nan and x; a
\* first line naming 500 without the marker
AnnHeaders ==
    { <<>>,
      HeaderLine(<<50, 48, 48, 48>>, <<32, 32, 32>>),
      HeaderLine(<<48>>, <<>>),
      HeaderLine(<<110, 97, 110>>, <<>>),
      HeaderLine(<<120>>, <<>>),
      RES_PATTERN \o <<32, 53, 48, 48, NEWLINE>> }

\* nothing, or the first 3 bytes of a record of type 'N'
AnnTails == {<<>>, <<100, 0, 78>>}

\* files with every type code: a record of that type, then one of type 'N'
TypeFiles == {Record(100, t) \o Record(400, 78) : t \in 0..255}

\* the files tried: those, and a header, up to n records and a tail
AnnFiles(n) ==
    TypeFiles \cup
    {h \o Flatten(recs) \o tail :
        h \in AnnHeaders,
        recs \in UNION {[1..k -> RecordSet] : k \in 0..n},
        tail \in AnnTails}

InitQrs ==
    /\ PlaybackInit
    /\ EstimatorInit
    /\ edf_len = 0
    /\ qrs = {}
    /\ AnnStart
    /\ ann_file \in AnnFiles(MaxRecords)
    /\ ann_pc = "header"
    /\ EdfIdle

NextQrs == AnnReadHeader \/ AnnReadAnnotation \/ AnnScanEnd \/ AnnSort

SpecQrs == InitQrs /\ [][NextQrs]_vars

(***************************************************************************)
(* EdfReader (edf_parser.rs).  The bytes of a signal file are laid out as  *)
(* read_header reads them: a fixed part of 256 bytes, then ten arrays of   *)
(* per-channel fields (256 bytes per channel), then the sample area of     *)
(* little-endian 16-bit values.  Text fields are ASCII padded with spaces. *)
(***************************************************************************)
\* str::trim
Trim(t) ==
    LET keep == {i \in 1..Len(t) : ~IsWhitespace(t[i])}
    IN  IF keep = {} THEN <<>>
        ELSE SubSeq(t, CHOOSE i \in keep : \A j \in keep : i <= j,
                       CHOOSE i \in keep : \A j \in keep : j <= i)

\* str::parse for an integer type with values lo..hi: an optional sign
\* ('-' only if lo < 0) and digits, in range
ParseInt(t, lo, hi) ==
    LET signed == t # <<>> /\ (t[1] = 43 \/ (t[1] = 45 /\ lo < 0))
        body == IF signed THEN Tail(t) ELSE t
        digits == body # <<>> /\ \A i \in 1..Len(body) : IsDigit(body[i])
        v == IF ~digits THEN 0
             ELSE IF signed /\ t[1] = 45 THEN 0 - DecimalValue(body) ELSE DecimalValue(body)
    IN  [ok |-> digits /\ v >= lo /\ v <= hi, v |-> v]

\* mutant: an integer field that does not parse is taken as 0
IntOrZero(t, lo, hi, default) ==
    LET r == ParseInt(t, lo, hi) IN IF r.ok THEN r.v ELSE 0

\* parse().unwrap_or(default) for an integer type
IntOr(t, lo, hi, default) ==
    LET r == ParseInt(t, lo, hi) IN IF r.ok THEN r.v ELSE default

\* parse().unwrap_or(default) for f64, as [nan, v]
F64Or(t, default) ==
    LET r == ParseF64(t)
    IN  IF r.ok THEN [nan |-> r.nan, v |-> r.v] ELSE [nan |-> FALSE, v |-> default]

\* the trimmed text of the field of w bytes at offset off (0-based)
FieldAt(b, off, w) == Trim(SubSeq(b, off + 1, off + w))

\* the k-th (from 1) field of an array of fields of w bytes that starts at off
ArrayAt(b, off, w, k) == FieldAt(b, off + w * (k - 1), w)

\* read_header: Err on a short read, else the header with each numeric
\* field parsed or defaulted (the 8 bytes of data_records cannot exceed u32)
ReadEdfHeader(b) ==
    IF Len(b) < 256 THEN [ok |-> FALSE]
    ELSE LET signals == IntOr(FieldAt(b, 252, 4), 0, 65535, 1)
             chan == 1..signals
             base == 256
         IN  IF Len(b) < 256 + 256 * signals THEN [ok |-> FALSE]
             ELSE [ok |-> TRUE,
                   header_bytes |-> IntOr(FieldAt(b, 184, 8), 0, 65535, 256),
                   data_records |-> IntOr(FieldAt(b, 236, 8), 0, 99999999, 0),
                   record_duration |-> F64Or(FieldAt(b, 244, 8), 1),
                   signals |-> signals,
                   signal_labels |-> [k \in chan |-> ArrayAt(b, base, 16, k)],
                   transducer_types |-> [k \in chan |-> ArrayAt(b, base + 16 * signals, 80, k)],
                   physical_dimensions |-> [k \in chan |-> ArrayAt(b, base + 96 * signals, 8, k)],
                   physical_minimums |->
                       [k \in chan |-> F64Or(ArrayAt(b, base + 104 * signals, 8, k), 0 - 2048)],
                   physical_maximums |->
                       [k \in chan |-> F64Or(ArrayAt(b, base + 112 * signals, 8, k), 2047)],
                   digital_minimums |->
                       [k \in chan |-> IntOr(ArrayAt(b, base + 120 * signals, 8, k),
                                             0 - 32768, 32767, 0 - 2048)],
                   digital_maximums |->
                       [k \in chan |-> IntOr(ArrayAt(b, base + 128 * signals, 8, k),
                                             0 - 32768, 32767, 2047)],
                   prefiltering |-> [k \in chan |-> ArrayAt(b, base + 136 * signals, 80, k)],
                   samples_per_record |->
                       [k \in chan |-> IntOr(ArrayAt(b, base + 216 * signals, 8, k), 0, 65535, 360)],
                   reserved |-> [k \in chan |-> ArrayAt(b, base + 224 * signals, 32, k)]]

\* read_i16::<LittleEndian> of the 2 bytes at offset off (0-based)
I16At(b, off) ==
    LET u == b[off + 1] + 256 * b[off + 2]
    IN  IF u >= 32768 THEN u - 65536 ELSE u

\* mutant: no test of digital_range, so that an empty range divides 0 by 0
DigitalToPhysicalUnguarded(h, digital_value, signal_idx) ==
    LET digital_range == h.digital_maximums[signal_idx] - h.digital_minimums[signal_idx]
        physical_min == h.physical_minimums[signal_idx]
        physical_max == h.physical_maximums[signal_idx]
    IN  IF digital_range = 0 \/ physical_min.nan \/ physical_max.nan
        THEN [num |-> 0, den |-> 0]
        ELSE [num |-> physical_min.v * digital_range
                          + (digital_value - h.digital_minimums[signal_idx])
                            * (physical_max.v - physical_min.v),
              den |-> digital_range]

\* digital_to_physical as the exact fraction num / den; den = 0 stands for NaN
DigitalToPhysical(h, digital_value, signal_idx) ==
    LET digital_min == h.digital_minimums[signal_idx]
        digital_max == h.digital_maximums[signal_idx]
        physical_min == h.physical_minimums[signal_idx]
        physical_max == h.physical_maximums[signal_idx]
        digital_range == digital_max - digital_min
        physical_range == physical_max.v - physical_min.v
    IN  IF digital_range = 0 THEN [num |-> 0, den |-> 1]
        ELSE IF physical_min.nan \/ physical_max.nan THEN [num |-> 0, den |-> 0]
        ELSE [num |-> physical_min.v * digital_range
                          + (digital_value - digital_min) * physical_range,
              den |-> digital_range]

\* 0.0
ZeroSample == [num |-> 0, den |-> 1]

\* number of reads of read_i16 that succeed from offset header_bytes on
ReadsAvailable(b, h) ==
    IF h.header_bytes >= Len(b) THEN 0 ELSE (Len(b) - h.header_bytes) \div 2

\* reads one data record asks for: the sum of samples_per_record
RECURSIVE SlotsUpTo(_, _)
SlotsUpTo(h, k) == IF k = 0 THEN 0 ELSE SlotsUpTo(h, k - 1) + h.samples_per_record[k]

\* number of reads that succeed before the loops end or a read fails
ReadsDone(b, h) ==
    LET per_record == SlotsUpTo(h, h.signals)
        avail == ReadsAvailable(b, h)
    IN  IF per_record = 0 \/ avail \div per_record >= h.data_records
        THEN per_record * h.data_records
        ELSE avail

\* the channel (from 1) the n-th read (from 0) belongs to
SignalOfRead(h, n) ==
    LET slot == n % SlotsUpTo(h, h.signals)
    IN  CHOOSE k \in 1..h.signals : SlotsUpTo(h, k - 1) <= slot /\ slot < SlotsUpTo(h, k)

\* all_samples when the loops of read_signals end: per channel, the
\* calibrated values in the order read
AllSamples(b, h) ==
    LET reads == ReadsDone(b, h)
        value(n) == DigitalToPhysical(h, I16At(b, h.header_bytes + 2 * n), SignalOfRead(h, n))
    IN  [k \in 1..h.signals |->
            LET mine == SelectSeq([i \in 1..reads |-> i - 1],
                                  LAMBDA n : SignalOfRead(h, n) = k)
            IN  [i \in 1..Len(mine) |-> value(mine[i])]]

\* mutant: as many frames as the longest channel has samples
TransposeLongest(all) ==
    IF Len(all) = 0 \/ Len(all[1]) = 0 THEN <<>>
    ELSE LET longest == CHOOSE n \in {Len(all[k]) : k \in 1..Len(all)} :
                            \A k \in 1..Len(all) : Len(all[k]) <= n
         IN  [i \in 1..longest |->
                 [k \in 1..Len(all) |-> IF i <= Len(all[k]) THEN all[k][i] ELSE ZeroSample]]

\* transpose_samples: as many frames as channel 0 has samples, a channel
\* that has fewer is padded with 0.0
TransposeSamples(all) ==
    IF Len(all) = 0 \/ Len(all[1]) = 0 THEN <<>>
    ELSE [i \in 1..Len(all[1]) |->
             [k \in 1..Len(all) |-> IF i <= Len(all[k]) THEN all[k][i] ELSE ZeroSample]]

(***************************************************************************)
(* A signal file as it is written: the texts of its numeric header fields, *)
(* the number of channels its per-channel arrays are laid out for, the     *)
(* digital values of its sample area, and its length in bytes.             *)
(***************************************************************************)
\* the decimal text of n >= 0
RECURSIVE Digits(_)
Digits(n) == IF n < 10 THEN <<48 + n>> ELSE Digits(n \div 10) \o <<48 + (n % 10)>>

\* the decimal text of an integer
Decimal(n) == IF n < 0 THEN <<45>> \o Digits(0 - n) ELSE Digits(n)

\* a text in a field of w bytes, padded with spaces
Pad(t, w) == [i \in 1..w |-> IF i <= Len(t) THEN t[i] ELSE 32]

\* an array of fields of w bytes, one per channel
PadAll(ts, w) == Flatten([k \in 1..Len(ts) |-> Pad(ts[k], w)])

\* the 2 bytes of a 16-bit value, little-endian
I16Bytes(v) == LET u == IF v < 0 THEN v + 65536 ELSE v IN <<u % 256, u \div 256>>

\* all the bytes of file f before truncation
EdfLayout(f) ==
    LET blank(w) == [k \in 1..f.blocks |-> Pad(<<>>, w)]
        each(t, w) == PadAll([k \in 1..f.blocks |-> t], w)
    IN  Pad(<<48>>, 8) \o Pad(<<>>, 176) \o Pad(f.header_bytes, 8) \o Pad(<<>>, 44)
        \o Pad(f.data_records, 8) \o Pad(f.record_duration, 8) \o Pad(f.signals, 4)
        \o Flatten(blank(16)) \o Flatten(blank(80)) \o Flatten(blank(8))
        \o each(f.physical_min, 8) \o each(f.physical_max, 8)
        \o each(f.digital_min, 8) \o each(f.digital_max, 8)
        \o Flatten(blank(80)) \o PadAll(f.samples_per_record, 8) \o Flatten(blank(32))
        \o Flatten([i \in 1..Len(f.data) |-> I16Bytes(f.data[i])])

\* the bytes of file f
EdfBytes(f) == SubSeq(EdfLayout(f), 1, f.len)

(***************************************************************************)
(* EdfReader::new and read_signals.                                        *)
(***************************************************************************)
\* mutant: the last per-channel array is left empty
EdfNewNoReserved ==
    /\ edf_pc = "new"
    /\ \E h \in {ReadEdfHeader(EdfBytes(edf_file))} :
          IF h.ok THEN edf_pc' = "opened" /\ header' = [h EXCEPT !.reserved = <<>>]
                  ELSE edf_pc' = "failed" /\ header' = <<>>
    /\ UNCHANGED <<edf_file, all_samples, signal_data, sample_rate, load_pc>>
    /\ UNCHANGED <<shared, pvars, uvars, hist, hrvars, annvars>>

\* EdfReader::new: read_header(&mut reader)?
EdfNew ==
    /\ edf_pc = "new"
    /\ \E h \in {ReadEdfHeader(EdfBytes(edf_file))} :
          IF h.ok THEN edf_pc' = "opened" /\ header' = h
                  ELSE edf_pc' = "failed" /\ header' = <<>>
    /\ UNCHANGED <<edf_file, all_samples, signal_data, sample_rate, load_pc>>
    /\ UNCHANGED <<shared, pvars, uvars, hist, hrvars, annvars>>

\* read_signals: samples_per_record[0] panics on a header without channels,
\* else the samples are read until the loops end or a read fails
EdfReadSignals ==
    /\ edf_pc = "opened"
    /\ IF header.signals = 0
       THEN edf_pc' = "panicked" /\ UNCHANGED <<all_samples, signal_data>>
       ELSE /\ edf_pc' = "read"
            /\ \E all \in {AllSamples(EdfBytes(edf_file), header)} :
                  all_samples' = all /\ signal_data' = TransposeSamples(all)
    /\ UNCHANGED <<edf_file, header, sample_rate, load_pc>>
    /\ UNCHANGED <<shared, pvars, uvars, hist, hrvars, annvars>>

\* get_sample_rate as the fraction num / den: samples_per_record[0] over
\* record_duration if record_duration > 0.0 (false for NaN) and there is a
\* channel, else 360.0
GetSampleRate(h) ==
    IF ~h.record_duration.nan /\ h.record_duration.v > 0 /\ h.signals > 0
    THEN [num |-> h.samples_per_record[1], den |-> h.record_duration.v]
    ELSE [num |-> SAMPLE_RATE, den |-> 1]

\* one call of get_sample_rate on the opened reader
EdfGetSampleRate ==
    /\ edf_pc = "opened"
    /\ sample_rate = NoRate
    /\ sample_rate' = GetSampleRate(header)
    /\ UNCHANGED <<edf_file, edf_pc, header, all_samples, signal_data, load_pc>>
    /\ UNCHANGED <<shared, pvars, uvars, hist, hrvars, annvars>>

(***************************************************************************)
(* SpecEdf: EdfReader::new, get_sample_rate and read_signals on signal     *)
(* files of up to MaxChannels channels whose sample area holds MaxSamples  *)
(* values, cut after every sample of the sample area and inside the       *)
(* header, with no, one or all numeric header fields unparsable.           *)
(***************************************************************************)
\* the numeric fields of the header
NumericFields ==
    {"header_bytes", "data_records", "record_duration", "signals", "physical_min",
     "physical_max", "digital_min", "digital_max", "samples_per_record"}

\* "x": a text no numeric type parses
Unparsable == <<120>>

\* the digital values of the sample area: -100, 0, 50, 100, then -75, -50, ...
SampleValues ==
    [i \in 1..MaxSamples |-> IF i <= 4 THEN <<0 - 100, 0, 50, 100>>[i] ELSE 25 * i - 200]

\* the file of K channels with the fields named in bad unparsable, nr data
\* records, spr[k] samples per record of channel k, cut to len bytes
EdfFile(bad, K, nr, spr, len) ==
    LET text(field, t) == IF field \in bad THEN Unparsable ELSE t
    IN  [header_bytes |-> text("header_bytes", Decimal(256 + 256 * K)),
         data_records |-> text("data_records", Decimal(nr)),
         record_duration |-> text("record_duration", Decimal(1)),
         signals |-> text("signals", Decimal(K)),
         blocks |-> K,
         physical_min |-> text("physical_min", Decimal(0 - 1)),
         physical_max |-> text("physical_max", Decimal(1)),
         digital_min |-> text("digital_min", Decimal(0 - 100)),
         digital_max |-> text("digital_max", Decimal(100)),
         samples_per_record |->
             [k \in 1..K |-> text("samples_per_record", Decimal(spr[k]))],
         data |-> SampleValues,
         len |-> len]

\* the length of the whole file of K channels
FullLength(K) == 256 + 256 * K + 2 * MaxSamples

\* lengths tried for a file of K channels: a cut after every sample of the
\* sample area, a cut inside the first sample, and two cuts inside the header
EdfLengths(K) ==
    {100, 255 + 256 * K, 257 + 256 * K} \cup {256 + 256 * K + 2 * j : j \in 0..MaxSamples}

\* numbers of data records tried
RecordCounts == {0, 1, MaxDeclared}

\* none, one or all numeric fields unparsable
BadSets == {{}, NumericFields} \cup {{field} : field \in NumericFields}

\* ways a whole file whose fields all parse is varied: digital_max written
\* equal to digital_min; a header length of 65536; a record duration of 0
Variants == {"flat", "long", "still"}

\* file f varied in way v
Variant(f, v) ==
    CASE v = "flat" -> [f EXCEPT !.digital_max = f.digital_min]
      [] v = "long" -> [f EXCEPT !.header_bytes = Decimal(65536)]
      [] v = "still" -> [f EXCEPT !.record_duration = Decimal(0)]

\* one channel, one data record of 4 samples, digital range [-100, 100],
\* physical range [-1, 1], samples -100, 0, 50, 100
ExampleFile == EdfFile({}, 1, 1, <<4>>, 256 + 256 + 2 * 4)

\* f is one of the files tried: up to MaxChannels channels, up to MaxDeclared
\* data records and samples per record, cut or whole; the whole files
\* varied; and the example file
IsEdfFile(f) ==
    \/ f = ExampleFile
    \/ \E K \in 0..MaxChannels :
          \E nr \in RecordCounts, spr \in [1..K -> 0..MaxDeclared] :
              \/ \E bad \in BadSets, len \in EdfLengths(K) :
                    f = EdfFile(bad, K, nr, spr, len)
              \/ \E v \in Variants :
                    f = Variant(EdfFile({}, K, nr, spr, FullLength(K)), v)

EdfStart ==
    /\ edf_pc = "new"
    /\ header = <<>>
    /\ all_samples = <<>>
    /\ signal_data = <<>>
    /\ sample_rate = NoRate

InitEdf ==
    /\ PlaybackInit
    /\ EstimatorInit
    /\ edf_len = 0
    /\ qrs = {}
    /\ AnnIdle
    /\ EdfStart
    /\ IsEdfFile(edf_file)
    /\ load_pc = "idle"

NextEdf == EdfNew \/ EdfGetSampleRate \/ EdfReadSignals

SpecEdf == InitEdf /\ [][NextEdf]_vars

(***************************************************************************)
(* load_ecg_data (main.rs): EdfReader::new, then load_annotations and      *)
(* read_signals, then one frame per entry of signal_data; the synthetic    *)
(* recording if EdfReader::new failed.  The frame sequence is described,   *)
(* as for the producer, by its length edf_len and the set qrs of the       *)
(* indices of its flagged frames; frame i carries the first three values   *)
(* of signal_data[i + 1].                                                  *)
(***************************************************************************)
\* (qrs_time - timestamp).abs() < 0.01 for the timestamp of tick value raw
\* and frame i; a timestamp beyond 1 s is near no frame below index 356,
\* and signal_data is shorter than that
Near(raw, i, res) ==
    /\ ~res.nan
    /\ res.v # 0
    /\ raw <= Abs(res.v)
    /\ 10 * Abs(SAMPLE_RATE * raw - i * res.v) < 36 * Abs(res.v)

\* if let Ok(mut edf_reader) = EdfReader::new(..): load_annotations is called
LoadCallAnnotations ==
    /\ load_pc = "loading"
    /\ edf_pc = "opened"
    /\ ann_pc = "idle"
    /\ ann_pc' = "header"
    /\ UNCHANGED <<ann_file, time_resolution, ann_pos, annotations, primary,
                   alt_called, alt_candidates>>
    /\ UNCHANGED <<shared, pvars, uvars, hist, hrvars, edfvars>>

\* the loop over signal_data: is_qrs of frame i is whether some annotation
\* is within 10 ms of i / SAMPLE_RATE
LoadAssemble ==
    /\ load_pc = "loading"
    /\ edf_pc = "read"
    /\ edf_len' = Len(signal_data)
    /\ qrs' = {i \in 0..(Len(signal_data) - 1) :
                  \E j \in 1..Len(annotations) : Near(annotations[j], i, time_resolution)}
    /\ load_pc' = "done"
    /\ UNCHANGED <<current_index, p_pc, speed, sleep_duration>>
    /\ UNCHANGED <<last_qrs_times, now, hr_samples, heart_rate, hr_queries, prev_qrs_times>>
    /\ UNCHANGED <<edf_file, edf_pc, header, all_samples, signal_data, sample_rate>>
    /\ UNCHANGED <<shared, uvars, hist, annvars>>

\* generate_synthetic_ecg: 60 s of frames, flagged where the position in the
\* 0.8 s heart cycle is strictly between 0.15 and 0.25 (288 frames a cycle)
LoadSynthetic ==
    /\ load_pc = "loading"
    /\ edf_pc = "failed"
    /\ edf_len' = 60 * SAMPLE_RATE
    /\ qrs' = {i \in 0..(60 * SAMPLE_RATE - 1) :
                  20 * (i % 288) > 3 * 288 /\ 4 * (i % 288) < 288}
    /\ load_pc' = "synthetic"
    /\ UNCHANGED <<current_index, p_pc, speed, sleep_duration>>
    /\ UNCHANGED <<last_qrs_times, now, hr_samples, heart_rate, hr_queries, prev_qrs_times>>
    /\ UNCHANGED <<edf_file, edf_pc, header, all_samples, signal_data, sample_rate>>
    /\ UNCHANGED <<shared, uvars, hist, annvars>>

(***************************************************************************)
(* SpecLoad: load_ecg_data on a signal file and an annotation file.        *)
(***************************************************************************)
\* signal files of one data record, whole or cut inside the header
LoadEdfFiles(n) ==
    UNION {{EdfFile({}, K, 1, spr, len) :
               spr \in [1..K -> 1..MaxDeclared],
               len \in {100, 256 + 256 * K + 2 * MaxSamples}} : K \in 0..n}

\* annotation files of up to n records at 0 and 10 ticks, without a header
\* or after a header naming 0, nan or x
LoadAnnFiles(n) ==
    {h \o Flatten(recs) :
        h \in {<<>>, HeaderLine(<<48>>, <<>>), HeaderLine(<<110, 97, 110>>, <<>>),
               HeaderLine(<<120>>, <<>>)},
        recs \in UNION {[1..k -> {Record(0, 78), Record(10, 78), Record(10, 0)}] : k \in 0..n}}

InitLoad ==
    /\ PlaybackInit
    /\ EstimatorInit
    /\ edf_len = 0
    /\ qrs = {}
    /\ AnnStart
    /\ ann_file \in LoadAnnFiles(2)
    /\ ann_pc = "idle"
    /\ EdfStart
    /\ edf_file \in LoadEdfFiles(MaxChannels)
    /\ load_pc = "loading"

NextLoad ==
    \/ EdfNew
    \/ LoadCallAnnotations
    \/ NextQrs
    \/ (ann_pc = "returned" /\ EdfReadSignals)
    \/ LoadAssemble
    \/ LoadSynthetic

SpecLoad == InitLoad /\ [][NextLoad]_vars

(***************************************************************************)
(* Steps named by the properties below.                                    *)
(***************************************************************************)
\* the producer completes push_back
PushStep == p_pc = "push" /\ p_pc' = "unlock"

\* the producer completes one append (evict + push) and releases the lock
AppendDone == p_pc = "unlock" /\ p_pc' = "advance"

\* the producer enters thread::sleep(sleep_duration)
BeginWait == p_pc # "sleep" /\ p_pc' = "sleep"

\* the UI thread completes its copy of the window
CopyStep == ui_pc = "copy" /\ ui_pc' = "draw"

\* the UI thread stores the run-flag
ToggleStep == is_running' # is_running

\* the frame that follows frame i in the cyclic order of edf_data
Succ(i) == (i + 1) % edf_len

\* each frame of the window is followed by its successor in edf_data
Contiguous(w) == \A i \in 1..(Len(w) - 1) : w[i + 1] = Succ(w[i])

(***************************************************************************)
(* C1: in every reachable state the playback window, and every snapshot    *)
(* of it, holds at most MAX_SAMPLES frames.                                *)
(***************************************************************************)
C1_WindowBounded == Len(samples) <= MAX_SAMPLES /\ Len(snap) <= MAX_SAMPLES

\* the window is full after more appends than its capacity, while paused
C1_Witness ==
    /\ Len(samples) = MAX_SAMPLES
    /\ appended > MAX_SAMPLES
    /\ ~is_running
    /\ display_speed # InitialSpeed
    /\ Len(snap) = MAX_SAMPLES

(***************************************************************************)
(* C2: a completed append to a window at capacity removed exactly the      *)
(* front frame and put the new frame at the back, the other frames keeping *)
(* their order; an append below capacity removed nothing.                  *)
(***************************************************************************)
C2_EvictOldestOnAppend ==
    [][AppendDone =>
          samples' = IF Len(committed) >= MAX_SAMPLES
                     THEN Append(Tail(committed), current_index)
                     ELSE Append(committed, current_index)]_vars

\* an append at capacity has just completed
C2_Witness ==
    /\ p_pc = "advance"
    /\ appended > MAX_SAMPLES
    /\ Len(samples) = MAX_SAMPLES
    /\ edf_len = MaxFrames
    /\ samples[1] # samples[Len(samples)]

(***************************************************************************)
(* C3: the k-th append (counting from 0) is frame k mod N, for every k     *)
(* below MaxAppends.                                                       *)
(***************************************************************************)
C3_ReplayInIndexOrder ==
    [][(PushStep /\ appended < MaxAppends) =>
          Last(samples') = appended % edf_len]_vars

\* the replay has wrapped to index 0 at least once and gone on
C3_Witness ==
    /\ p_pc = "unlock"
    /\ edf_len = MaxFrames
    /\ appended > edf_len + 1
    /\ appended < MaxAppends
    /\ Last(samples) = (appended - 1) % edf_len

(***************************************************************************)
(* C4 (as claimed): while the run-flag is false no step changes the        *)
(* window.                                                                 *)
(***************************************************************************)
C4_NoMutationWhilePaused ==
    [][(~is_running /\ ~is_running') => samples' = samples]_vars

(***************************************************************************)
(* C4 (amended): during one pause at most one frame is appended, the one   *)
(* of the iteration whose run-flag check preceded the pause.               *)
(***************************************************************************)
C4_AtMostOneAppendWhilePaused == ~is_running => paused_appends <= 1

\* the in-flight append completed during the pause and the producer now polls
C4_Witness ==
    /\ ~is_running
    /\ paused_appends = 1
    /\ p_pc = "pause_sleep"
    /\ Len(samples) = MAX_SAMPLES

(***************************************************************************)
(* C5 (as claimed): a toggle of the run-flag changes neither the window    *)
(* nor the replay index, and the first frame appended after a resume is    *)
(* the successor of the last frame appended before the pause.              *)
(***************************************************************************)
C5_ResumeFollowsPauseMark ==
    [][/\ ToggleStep => UNCHANGED <<samples, current_index>>
       /\ (PushStep /\ resumed /\ pause_mark # NoFrame) =>
              Last(samples') = Succ(pause_mark)]_vars

(***************************************************************************)
(* C5 (amended): a toggle of the run-flag changes neither the window nor   *)
(* the replay index, and every appended frame, the first after a resume    *)
(* included, is the successor of the frame appended before it.             *)
(***************************************************************************)
C5_ToggleLosesNothing ==
    [][/\ ToggleStep => UNCHANGED <<samples, current_index>>
       /\ (PushStep /\ committed # <<>>) =>
              Last(samples') = Succ(Last(committed))]_vars

\* the first append after a resume, after a pause during which one frame
\* was appended
C5_Witness ==
    /\ is_running
    /\ ~resumed
    /\ pause_mark # NoFrame
    /\ paused_appends = 1
    /\ p_pc = "unlock"
    /\ edf_len = MaxFrames
    /\ Last(samples) = Succ(Succ(pause_mark))

(***************************************************************************)
(* C6: the lock of the window is held only inside one append or one copy:  *)
(* never by a sleeping producer, never by a UI thread that is drawing.     *)
(***************************************************************************)
C6_LockOnlyAroundAppendOrCopy ==
    /\ samples_lock = "producer" <=> p_pc \in {"evict", "push", "unlock"}
    /\ samples_lock = "ui" <=> ui_pc = "copy"

\* the producer sleeps and the renderer draws, the lock being free
C6_Witness ==
    /\ p_pc = "sleep"
    /\ ui_pc = "draw"
    /\ samples_lock = "free"
    /\ snap # <<>>

(***************************************************************************)
(* C7: the window is a contiguous cyclic run of edf_data: timestamps do    *)
(* not decrease from front to back except where frame N-1 is followed by   *)
(* frame 0.                                                                *)
(***************************************************************************)
C7_ContiguousCyclicRun ==
    /\ Contiguous(samples)
    /\ \A i \in 1..(Len(samples) - 1) :
          \/ Timestamp(samples[i]) <= Timestamp(samples[i + 1])
          \/ samples[i] = edf_len - 1 /\ samples[i + 1] = 0

\* a full window that contains the wrap from frame N-1 to frame 0
C7_Witness ==
    /\ edf_len = MaxFrames
    /\ Len(samples) = MAX_SAMPLES
    /\ \E i \in 1..(Len(samples) - 1) : samples[i] = edf_len - 1 /\ samples[i + 1] = 0

(***************************************************************************)
(* C8: every snapshot equals the window as a completed append left it,     *)
(* and once MAX_SAMPLES frames were appended it has MAX_SAMPLES frames.    *)
(***************************************************************************)
C8_SnapshotAtomic ==
    [][CopyStep =>
          /\ snap' = committed
          /\ appended >= MAX_SAMPLES => Len(snap') = MAX_SAMPLES]_vars

\* the renderer holds a whole snapshot while the producer is between the
\* eviction and the push of its next append
C8_Witness ==
    /\ ui_pc = "draw"
    /\ Len(snap) = MAX_SAMPLES
    /\ p_pc = "push"
    /\ Len(samples) = MAX_SAMPLES - 1
    /\ snap = committed

(***************************************************************************)
(* C9 (as claimed): every inter-frame wait the producer begins is computed *)
(* from the speed multiplier stored at that moment.                        *)
(***************************************************************************)
C9_WaitUsesStoredSpeed ==
    [][BeginWait => sleep_duration' = SleepDuration(display_speed')]_vars

(***************************************************************************)
(* C9 (amended): an inter-frame wait is computed from the speed the        *)
(* producer read at the top of the same iteration, so it uses the stored   *)
(* speed whenever no store came between that read and the wait.            *)
(***************************************************************************)
C9_WaitUsesSpeedReadThisIteration ==
    [][(BeginWait /\ ~stored_since_read') =>
          sleep_duration' = SleepDuration(display_speed')]_vars

\* a changed speed has taken effect on a wait
C9_Witness ==
    /\ p_pc = "sleep"
    /\ ~stored_since_read
    /\ display_speed # InitialSpeed
    /\ speed = display_speed
    /\ sleep_duration = SleepDuration(display_speed)
    /\ appended > 0

(***************************************************************************)
(* C10: whenever at least two beat times remain after pruning, the         *)
(* estimate is round(60 x (n-1) / (latest - earliest)); two beat times     *)
(* 1.0 s apart give 60 bpm.                                                *)
(***************************************************************************)
BeatSet == {last_qrs_times[i] : i \in 1..Len(last_qrs_times)}

Latest == CHOOSE x \in BeatSet : \A y \in BeatSet : y <= x

Earliest == CHOOSE x \in BeatSet : \A y \in BeatSet : x <= y

C10_RateFromMeanInterval ==
    (hr_queries > 0 /\ Len(last_qrs_times) >= 2) =>
        /\ Latest > Earliest
        /\ heart_rate =
              RoundDiv(60 * SAMPLE_RATE * (Len(last_qrs_times) - 1), Latest - Earliest)
        /\ (Len(last_qrs_times) = 2 /\ Latest - Earliest = SAMPLE_RATE) => heart_rate = 60

\* exactly two beat times 1.0 s apart, reported as 60 bpm
C10_Witness ==
    /\ hr_queries > 0
    /\ Len(last_qrs_times) = 2
    /\ Latest - Earliest = SAMPLE_RATE
    /\ heart_rate = 60

(***************************************************************************)
(* C11: whenever fewer than two beat times remain after pruning, the       *)
(* value the estimator returned lies in the band [65, 90].                 *)
(***************************************************************************)
C11_FallbackInBand ==
    (hr_queries > 0 /\ Len(last_qrs_times) < 2) => heart_rate \in 65..90

\* a second query left one beat time and returned a fallback value
C11_Witness ==
    /\ hr_queries > 1
    /\ Len(last_qrs_times) = 1
    /\ heart_rate = 79

(***************************************************************************)
(* C12 (as claimed): a fallback value and a measured value are never the   *)
(* same to the caller: a query that measures never returns the value the   *)
(* fallback query before it returned.                                      *)
(***************************************************************************)
C12_FallbackDistinguishable ==
    [][(hr_queries > 0 /\ Len(last_qrs_times) < 2 /\ Len(last_qrs_times') >= 2) =>
          heart_rate' # heart_rate]_vars

(***************************************************************************)
(* C13: after every query any two recorded beat times are at least 100 ms  *)
(* apart and every one is less than 10 s older than the time of the query, *)
(* so that at most 100 are recorded.                                       *)
(***************************************************************************)
C13_DedupedAndPruned ==
    /\ \A i, j \in 1..Len(last_qrs_times) :
          i # j => Abs(last_qrs_times[i] - last_qrs_times[j]) >= DedupTicks
    /\ \A i \in 1..Len(last_qrs_times) :
          /\ now - last_qrs_times[i] < KeepTicks
          /\ last_qrs_times[i] < now
    /\ Len(last_qrs_times) <= 100

\* the second query, more than 10 s after the first, pruned what the first
\* recorded and recorded two beats of its own window once each
C13_Witness ==
    /\ hr_queries > 1
    /\ now = KeepTicks + 20
    /\ prev_qrs_times # <<>>
    /\ \A i \in 1..Len(prev_qrs_times) : prev_qrs_times[i] \notin BeatSet
    /\ Len(hr_samples) = MaxHrWindow
    /\ Cardinality(qrs) = 3
    /\ Len(last_qrs_times) = 2

(***************************************************************************)
(* C14: a step of the primary scan on a complete 4-byte record appends the *)
(* record's timestamp if and only if its type code is one of 1..12 or one  *)
(* of the letters N L R A a J S V E j / f Q; otherwise it appends nothing, *)
(* and in both cases the scan goes on with the next record.                *)
(***************************************************************************)
\* 1..12, and the codes of N L R A a J S V E j / f Q
BeatCodes == (1..12) \cup {78, 76, 82, 65, 97, 74, 83, 86, 69, 106, 47, 102, 81}

C14_BeatCodesAccepted ==
    [][(ann_pc = "scan" /\ ann_pos + 4 <= Len(ann_file)) =>
          /\ ann_pc' = "scan"
          /\ ann_pos' = ann_pos + 4
          /\ annotations' =
                IF ann_file[ann_pos + 3] \in BeatCodes
                THEN Append(annotations, ann_file[ann_pos + 1] + 256 * ann_file[ann_pos + 2])
                ELSE annotations]_vars

\* a record of type 'X' was skipped and the record of type 'N' after it accepted
C14_Witness ==
    /\ ann_file = <<100, 0, 88, 0, 144, 1, 78, 0>>
    /\ ann_pc = "returned"
    /\ annotations = <<400>>

(***************************************************************************)
(* C15: the list load_annotations returns is in ascending order of         *)
(* timestamp.                                                              *)
(***************************************************************************)
C15_ReturnedSorted ==
    ann_pc = "returned" =>
        \A i \in 1..(Len(annotations) - 1) :
            /\ ~TimeIsNaN(annotations[i], time_resolution)
            /\ ~TimeIsNaN(annotations[i + 1], time_resolution)
            /\ ~TimeLess(annotations[i + 1], annotations[i], time_resolution)

\* the primary scan accepted records out of order and the list came back sorted
C15_Witness ==
    /\ ann_pc = "returned"
    /\ primary = <<2400, 100, 400>>
    /\ annotations = <<100, 400, 2400>>

(***************************************************************************)
(* C16: the heuristic scanner is called exactly when the primary scan      *)
(* accepted no record; the result is the accepted primary timestamps,      *)
(* sorted, if there are any, and the heuristic scanner's output otherwise. *)
(***************************************************************************)
\* how many entries of q equal x
Count(q, x) == Cardinality({i \in 1..Len(q) : q[i] = x})

C16_FallbackOnlyOnEmpty ==
    ann_pc = "returned" =>
        /\ alt_called <=> (primary = <<>>)
        /\ primary # <<>> =>
              /\ Len(annotations) = Len(primary)
              /\ \A i \in 1..Len(primary) :
                    Count(annotations, primary[i]) = Count(primary, primary[i])
        /\ primary = <<>> =>
              annotations = ParseAlternativeFormat(ann_file, time_resolution).out

\* no record was accepted and the heuristic scanner recovered two timestamps
C16_Witness ==
    /\ ann_pc = "returned"
    /\ primary = <<>>
    /\ alt_called
    /\ Len(annotations) = 2

(***************************************************************************)
(* C17: when the heuristic scanner has more than CANDIDATE_LIMIT           *)
(* deduplicated candidates, its output starts with the smallest of them,   *)
(* consecutive outputs are between 0.3 s and 2.0 s apart inclusive, and a  *)
(* candidate whose gap from the output before it is outside that range is  *)
(* not in the output.                                                      *)
(***************************************************************************)
\* 0.3 <= d / time_resolution <= 2.0 for a positive divisor
GapInRange(d) == 10 * d >= 3 * time_resolution.v /\ d <= 2 * time_resolution.v

\* the outputs below candidate c
KeptBelow(c) == {annotations[i] : i \in 1..Len(annotations)} \cap (0..(c - 1))

C17_FilteredByInterval ==
    (ann_pc = "returned" /\ alt_called /\ Len(alt_candidates) > CANDIDATE_LIMIT) =>
        /\ annotations # <<>>
        /\ \A i \in 1..Len(alt_candidates) : annotations[1] <= alt_candidates[i]
        /\ \E i \in 1..Len(alt_candidates) : annotations[1] = alt_candidates[i]
        /\ \A i \in 1..(Len(annotations) - 1) :
              GapInRange(annotations[i + 1] - annotations[i])
        /\ \A i \in 1..Len(alt_candidates) :
              LET c == alt_candidates[i]
                  below == KeptBelow(c)
              IN  below # {} =>
                     LET prev == CHOOSE x \in below : \A y \in below : y <= x
                     IN  ~GapInRange(c - prev) => Count(annotations, c) = 0

\* three candidates, the middle one too close to the first and left out
C17_Witness ==
    /\ ann_pc = "returned"
    /\ alt_called
    /\ alt_candidates = <<100, 400, 2400>>
    /\ annotations = <<100, 2400>>

(***************************************************************************)
(* C18 (as claimed): no stage of load_ecg_data panics, whatever the signal *)
(* file and the annotation file hold.                                      *)
(***************************************************************************)
C18_NoHardFailure == edf_pc # "panicked" /\ ann_pc # "panicked"

(***************************************************************************)
(* C19 (as claimed): whenever read_signals returns, every sample it read,  *)
(* of every channel, is in the returned frames at its index, calibrated,   *)
(* and there are as many frames as samples were read of the channel with   *)
(* the most.                                                               *)
(***************************************************************************)
C19_TruncationLosesNothing ==
    edf_pc = "read" =>
        /\ \A k \in 1..Len(all_samples) :
              \A i \in 1..Len(all_samples[k]) :
                  i <= Len(signal_data) /\ signal_data[i][k] = all_samples[k][i]
        /\ \A k \in 1..Len(all_samples) : Len(all_samples[k]) <= Len(signal_data)
        /\ \E k \in 1..Len(all_samples) : Len(all_samples[k]) = Len(signal_data)

(***************************************************************************)
(* C20: once read_header returned Ok, every numeric field whose text does  *)
(* not parse has its default (header length 256, record count 0, record    *)
(* duration 1.0, channel count 1, physical min/max -2048.0/2047.0, digital *)
(* min/max -2048/2047, samples per record 360); and read_header fails only *)
(* if the file is shorter than the header of the channel count read.       *)
(***************************************************************************)
\* the text of an integer field does not parse as a value of lo..hi
NoInt(t, lo, hi) == ~ParseInt(t, lo, hi).ok

\* the text of a floating-point field does not parse
NoF64(t) == ~ParseF64(t).ok

C20_UnparsableFieldsDefault ==
    edf_pc # "new" => \A b \in {EdfBytes(edf_file)} :
        IF Len(b) < 256 THEN edf_pc = "failed"
        ELSE LET K == IF NoInt(FieldAt(b, 252, 4), 0, 65535) THEN 1
                      ELSE ParseInt(FieldAt(b, 252, 4), 0, 65535).v
             IN  IF Len(b) < 256 + 256 * K THEN edf_pc = "failed"
                 ELSE
                    /\ edf_pc # "failed"
                    /\ header.signals = K
                    /\ NoInt(FieldAt(b, 184, 8), 0, 65535) => header.header_bytes = 256
                    /\ NoInt(FieldAt(b, 236, 8), 0, 99999999) => header.data_records = 0
                    /\ NoF64(FieldAt(b, 244, 8)) =>
                          header.record_duration = [nan |-> FALSE, v |-> 1]
                    /\ \A k \in 1..K :
                          /\ NoF64(ArrayAt(b, 256 + 104 * K, 8, k)) =>
                                header.physical_minimums[k] = [nan |-> FALSE, v |-> 0 - 2048]
                          /\ NoF64(ArrayAt(b, 256 + 112 * K, 8, k)) =>
                                header.physical_maximums[k] = [nan |-> FALSE, v |-> 2047]
                          /\ NoInt(ArrayAt(b, 256 + 120 * K, 8, k), 0 - 32768, 32767) =>
                                header.digital_minimums[k] = 0 - 2048
                          /\ NoInt(ArrayAt(b, 256 + 128 * K, 8, k), 0 - 32768, 32767) =>
                                header.digital_maximums[k] = 2047
                          /\ NoInt(ArrayAt(b, 256 + 216 * K, 8, k), 0, 65535) =>
                                header.samples_per_record[k] = 360

\* a file of one channel with every numeric field unparsable was decoded
C20_Witness ==
    /\ edf_pc = "opened"
    /\ edf_file.signals = Unparsable
    /\ edf_file.header_bytes = Unparsable
    /\ edf_file.samples_per_record = <<Unparsable>>
    /\ header.header_bytes = 256
    /\ header.data_records = 0
    /\ header.signals = 1
    /\ header.record_duration = [nan |-> FALSE, v |-> 1]
    /\ header.physical_minimums = <<[nan |-> FALSE, v |-> 0 - 2048]>>
    /\ header.physical_maximums = <<[nan |-> FALSE, v |-> 2047]>>
    /\ header.digital_minimums = <<0 - 2048>>
    /\ header.digital_maximums = <<2047>>
    /\ header.samples_per_record = <<360>>

(***************************************************************************)
(* C21: for every channel of a decoded header and every digital value d    *)
(* (those of the sample area, digital_min and digital_max), the calibrated *)
(* value is physical_min + (d - digital_min) / (digital_max - digital_min) *)
(* x (physical_max - physical_min) when the digital range is not empty, so *)
(* that digital_min gives physical_min and digital_max gives physical_max, *)
(* and exactly 0.0 when digital_min = digital_max; every value read_signals*)
(* stored is the calibration of a value of the sample area, and the        *)
(* example file decodes to -1.0, 0.0, 0.5, 1.0.                            *)
(***************************************************************************)
\* the fractions a and b are numbers and are equal
FracEq(a, b) ==
    /\ a.den # 0
    /\ b.den # 0
    /\ IF a.den = b.den THEN a.num = b.num ELSE a.num * b.den = b.num * a.den

\* the 16-bit values of the bytes b from the offset the samples are read at
FileValues(b) ==
    {I16At(b, header.header_bytes + 2 * n) : n \in 0..(ReadsAvailable(b, header) - 1)}

C21_Calibration ==
    edf_pc \in {"opened", "read"} =>
        \A values \in {FileValues(EdfBytes(edf_file))} :
            /\ \A k \in 1..header.signals :
                  LET dmin == header.digital_minimums[k]
                      dmax == header.digital_maximums[k]
                      pmin == header.physical_minimums[k]
                      pmax == header.physical_maximums[k]
                  IN  \A d \in values \cup {dmin, dmax} :
                          LET y == DigitalToPhysical(header, d, k)
                          IN  IF dmin = dmax THEN y = [num |-> 0, den |-> 1]
                              ELSE (~pmin.nan /\ ~pmax.nan) =>
                                     /\ FracEq(y, [num |-> pmin.v * (dmax - dmin)
                                                              + (d - dmin) * (pmax.v - pmin.v),
                                                   den |-> dmax - dmin])
                                     /\ d = dmin => FracEq(y, [num |-> pmin.v, den |-> 1])
                                     /\ d = dmax => FracEq(y, [num |-> pmax.v, den |-> 1])
            /\ edf_pc = "read" =>
                  \A k \in 1..Len(all_samples) :
                      \A i \in 1..Len(all_samples[k]) :
                          \E d \in values : all_samples[k][i] = DigitalToPhysical(header, d, k)
            /\ (edf_pc = "read" /\ edf_file = ExampleFile) =>
                  /\ Len(signal_data) = 4
                  /\ FracEq(signal_data[1][1], [num |-> 0 - 1, den |-> 1])
                  /\ FracEq(signal_data[2][1], [num |-> 0, den |-> 1])
                  /\ FracEq(signal_data[3][1], [num |-> 1, den |-> 2])
                  /\ FracEq(signal_data[4][1], [num |-> 1, den |-> 1])

\* the example file was read: four frames of one channel, the first -1.0
\* and the last 1.0
C21_Witness ==
    /\ edf_pc = "read"
    /\ edf_file = ExampleFile
    /\ header.digital_minimums = <<0 - 100>>
    /\ header.digital_maximums = <<100>>
    /\ Len(signal_data) = 4
    /\ FracEq(signal_data[1][1], [num |-> 0 - 1, den |-> 1])
    /\ FracEq(signal_data[4][1], [num |-> 1, den |-> 1])

(***************************************************************************)
(* C22: once read_header returned Ok, the channel count of the header is   *)
(* the one parsed from the file (1 if its text does not parse) and each of *)
(* the ten per-channel arrays has exactly that many entries.               *)
(***************************************************************************)
\* the channel count read_header takes from the bytes b
CountOf(b) ==
    IF NoInt(FieldAt(b, 252, 4), 0, 65535) THEN 1
    ELSE ParseInt(FieldAt(b, 252, 4), 0, 65535).v

C22_ArraysHaveCountEntries ==
    edf_pc \in {"opened", "read", "panicked"} =>
        /\ header.signals = CountOf(EdfBytes(edf_file))
        /\ Len(header.signal_labels) = header.signals
        /\ Len(header.transducer_types) = header.signals
        /\ Len(header.physical_dimensions) = header.signals
        /\ Len(header.physical_minimums) = header.signals
        /\ Len(header.physical_maximums) = header.signals
        /\ Len(header.digital_minimums) = header.signals
        /\ Len(header.digital_maximums) = header.signals
        /\ Len(header.prefiltering) = header.signals
        /\ Len(header.samples_per_record) = header.signals
        /\ Len(header.reserved) = header.signals

\* a header of MaxChannels channels was decoded
C22_Witness ==
    /\ edf_pc = "opened"
    /\ header.signals = MaxChannels
    /\ Len(header.signal_labels) = MaxChannels
    /\ Len(header.reserved) = MaxChannels
    /\ header.samples_per_record[MaxChannels] = MaxDeclared

(***************************************************************************)
(* C23 (as claimed): after a query, every beat time the query recorded is  *)
(* the time of the query minus the own distance from the newest end of a   *)
(* flagged frame among the 100 most recent of the window, and when nothing *)
(* was recorded before, the newest such frame is recorded with its own     *)
(* distance; also for a window in which timestamps repeat.                 *)
(***************************************************************************)
\* places (from 1) of the flagged frames among the 100 most recent of w
FlaggedPlaces(w) == {k \in 1..Len(w) : k > Len(w) - RECENT_FRAMES /\ w[k] \in qrs}

\* the time of the frame at place k with its own distance from the newest
\* end, counted as the code counts it: samples.len() - index
OwnTime(w, k, t) == t - (Len(w) - (k - 1))

C23_BeatTimeFromOwnDistance ==
    hr_queries > 0 =>
        LET w == hr_samples
            fresh == {last_qrs_times[i] : i \in 1..Len(last_qrs_times)}
                        \ {prev_qrs_times[i] : i \in 1..Len(prev_qrs_times)}
        IN  /\ \A q \in fresh : \E k \in FlaggedPlaces(w) : q = OwnTime(w, k, now)
            /\ (prev_qrs_times = <<>> /\ FlaggedPlaces(w) # {}) =>
                   \E i \in 1..Len(last_qrs_times) :
                       last_qrs_times[i] =
                           OwnTime(w, CHOOSE k \in FlaggedPlaces(w) :
                                          \A j \in FlaggedPlaces(w) : j <= k, now)

(***************************************************************************)
(* C24 (as claimed): once the header step of load_annotations is done on a *)
(* file that does not begin with the marker "## ", the divisor is the      *)
(* default 1000.0, so that every accepted record is timed as its tick      *)
(* value / 1000.0.                                                         *)
(***************************************************************************)
\* the file begins with "## "
Marked(s) == Len(s) >= Len(MARKER) /\ SubSeq(s, 1, Len(MARKER)) = MARKER

C24_DivisorOnlyFromMarkedHeader ==
    (ann_pc \notin {"idle", "header"} /\ ~Marked(ann_file)) =>
        time_resolution = [nan |-> FALSE, v |-> DEFAULT_RESOLUTION]

(***************************************************************************)
(* C25 (as claimed): whenever the header-length field holds a non-negative *)
(* integer and read_signals returned, the samples it read are those found  *)
(* from that byte offset of the file on.                                   *)
(***************************************************************************)
\* the text t is a non-negative integer written in digits
IsNatural(t) == t # <<>> /\ \A i \in 1..Len(t) : IsDigit(t[i])

C25_ReadsFromDeclaredOffset ==
    LET b == EdfBytes(edf_file)
    IN  (edf_pc = "read" /\ IsNatural(FieldAt(b, 184, 8))) =>
            all_samples =
                AllSamples(b, [header EXCEPT !.header_bytes = DecimalValue(FieldAt(b, 184, 8))])

(***************************************************************************)
(* C26 (as claimed): the wait the producer performs after an iteration is  *)
(* 1000 / (360 x speed) milliseconds for the speed it read, here to within *)
(* half a millisecond (2.78 ms at speed 1.0, 0.56 ms at speed 5.0).        *)
(***************************************************************************)
C26_WaitIsFramePeriod ==
    p_pc = "sleep" =>
        2 * Abs(sleep_duration * SAMPLE_RATE * speed - 1000 * 10) < SAMPLE_RATE * speed

(***************************************************************************)
(* C27 (as claimed): get_sample_rate returns samples_per_record[0] /       *)
(* record_duration when both are positive, and 360 when record_duration is *)
(* not positive, when samples_per_record[0] is 0 or when there is no       *)
(* channel.                                                                *)
(***************************************************************************)
C27_RateOrNominal ==
    sample_rate # NoRate =>
        IF /\ ~header.record_duration.nan
           /\ header.record_duration.v > 0
           /\ header.signals > 0
           /\ header.samples_per_record[1] > 0
        THEN FracEq(sample_rate, [num |-> header.samples_per_record[1],
                                  den |-> header.record_duration.v])
        ELSE sample_rate = [num |-> SAMPLE_RATE, den |-> 1]

(***************************************************************************)
(* C28 (as claimed): a query on the window the previous query was given    *)
(* (playback paused) records no beat time that was not recorded before:    *)
(* every flagged frame of that window was counted by the previous query.   *)
(***************************************************************************)
C28_FrameCountedOnce ==
    [][(hr_queries > 0 /\ hr_samples' = hr_samples) =>
          \A i \in 1..Len(last_qrs_times') :
              \E j \in 1..Len(last_qrs_times) : last_qrs_times'[i] = last_qrs_times[j]]_vars

(***************************************************************************)
(* C29: the lock of the run-flag and the lock of the speed are taken only  *)
(* by a thread that does not hold the lock of the window, so that no       *)
(* thread holds two locks; the producer can always take a step unless it   *)
(* waits for the window lock held by the UI, which can then release it;    *)
(* and under fair scheduling, whenever the frame sequence is not empty,    *)
(* the producer eventually appends a frame unless the run-flag is cleared. *)
(***************************************************************************)
\* the steps of the producer that lock the run-flag or the speed
ProducerFlagStep == ProducerCheckRun \/ ProducerReadSpeed

\* the steps of the UI thread that lock the run-flag or the speed
UIFlagStep == UIReadRun \/ UIClick \/ UIReadSpeed \/ UISlider

\* the producer is not stuck: it can step, or waits for the UI's clone
NotStuck == ENABLED Producer \/ (p_pc = "lock" /\ samples_lock = "ui" /\ ENABLED UICopy)

====
